---- MODULE Spec2Model ----
(***************************************************************************)
(* A model of anafora/eval.py: the Scores accumulator, the Overlapping     *)
(* equivalence (_OverlappingSpans, _OverlappingWrapper), _group_by,        *)
(* score_data, _load_and_remove_errors, score_dirs and score_annotators.   *)
(*                                                                         *)
(* The module holds one group of variables per modelled function and one   *)
(* specification per group; a specification leaves the other groups idle.  *)
(*                                                                         *)
(* Representation choices                                                  *)
(*  - A Python set is a sequence of pairwise unequal items in insertion    *)
(*    order ("PySet"); equality of items is the items' own __eq__, so a    *)
(*    set under the Overlapping strategy keeps the first of two equal      *)
(*    items.                                                               *)
(*  - A result key is a tuple: <<type>> for the bare type name,            *)
(*    <<type, property>> and <<type, property, value>> for the tuples.     *)
(*  - A property value is a record [kind, val]; kind "str" is a            *)
(*    basestring, kind "num" is a number.                                  *)
(*  - A float returned by precision()/recall() is a fraction <<n, d>>.     *)
(*  - Python's None is the string NoneVal.                                 *)
(***************************************************************************)
EXTENDS Integers, Sequences, FiniteSets, Bags, TLC

VARIABLES
    \* Scores objects under test and the add() calls folded into each
    scores, other, scoresLog, otherLog,
    \* _OverlappingSpans.__eq__: the two operands and the two results
    spansA, spansB, eqAB, eqBA, spans_pc,
    \* _OverlappingWrapper(annotation): the object graph, the wrapper built
    heap, wrapper, wrap_pc,
    \* _group_by: its arguments, the equivalence of the items, the result
    reference_iterable, predicted_iterable, key_function, items_ov, groups, group_pc,
    \* score_data: its arguments and the mapping it returns
    reference_data, predicted_data, include, exclude, annotation_wrapper, result, data_pc,
    \* _load_and_remove_errors: the file, the document, the pending errors,
    \* the number of annotations the latest pass removed
    xml_file, data, errors, pass_removed, load_pc,
    \* score_dirs: the corpus-wide result, the number of units walked, and
    \* the result had every unit been scored with a failed side empty
    dirs_result, dirs_units, dirs_claimed, dirs_pc,
    \* score_annotators: the result, the number of units walked, and per
    \* role-generalized key the sum of the comparisons run
    annotators_result, annotators_units, general_sums, annotators_pc

NoneVal == "<None>"

Range(s) == {s[i] : i \in 1..Len(s)}

(***************************************************************************)
(* Bounds                                                                  *)
(***************************************************************************)
MaxAddCalls == 2
MaxSubSpans == 2
MaxProps == 2
MaxGroupItems == 2
MaxRefAnnotations == 2
MaxPredAnnotations == 1
MaxFilterKeys == 1
MaxDocAnnotations == 3
MaxErrors == 2
MaxUnits == 3
MaxXmlNames == 2
MaxAnnotatorUnits == 2
MaxAnnotatorFiles == 3

(***************************************************************************)
(* _OverlappingSpans                                                       *)
(***************************************************************************)
\* the test of the inner loop body, with <= in place of <
SpanPairOverlapsTouching(self_span, other_span) ==
    self_span[1] <= other_span[2] /\ other_span[1] <= self_span[2]

\* eval.py line 93
SpanPairOverlaps(self_span, other_span) ==
    self_span[1] < other_span[2] /\ other_span[1] < self_span[2]

\* the inner loop of __eq__: TRUE as soon as one other-span overlaps
RECURSIVE InnerLoop(_, _, _)
InnerLoop(self_span, other_spans, j) ==
    IF j > Len(other_spans) THEN FALSE
    ELSE IF SpanPairOverlaps(self_span, other_spans[j]) THEN TRUE
    ELSE InnerLoop(self_span, other_spans, j + 1)

\* _OverlappingSpans.__eq__: the outer loop, returning False after both loops
RECURSIVE OverlappingSpansEq(_, _, _)
OverlappingSpansEq(self_spans, other_spans, i) ==
    IF i > Len(self_spans) THEN FALSE
    ELSE IF InnerLoop(self_spans[i], other_spans, 1) THEN TRUE
    ELSE OverlappingSpansEq(self_spans, other_spans, i + 1)

(***************************************************************************)
(* Item equality and Python sets                                           *)
(***************************************************************************)
\* An item of a set is an annotation [spans, rest |-> <<type, properties>>]
\* or a fact [spans, rest |-> <<key, value>>].

\* Exact equivalence: the annotation model's structural equality over spans,
\* type and properties; tuple equality of facts
ExactEq(a, b) == a = b

\* Overlapping equivalence: _OverlappingWrapper.__eq__ compares _key(), whose
\* spans are _OverlappingSpans; a fact built from a wrapper is a tuple whose
\* first component is the wrapper's spans
OverlappingEq(a, b) ==
    /\ OverlappingSpansEq(a.spans, b.spans, 1)
    /\ a.rest = b.rest

\* __eq__ of an item under the strategy in force (ov: Overlapping)
ItemEq(ov, a, b) == IF ov THEN OverlappingEq(a, b) ELSE ExactEq(a, b)

PyContains(S, x, ov) == \E i \in 1..Len(S) : ItemEq(ov, S[i], x)

\* set.add
PySetAdd(S, x, ov) == IF PyContains(S, x, ov) THEN S ELSE Append(S, x)

\* set(iterable), item by item
RECURSIVE PySetFrom(_, _, _)
PySetFrom(items, ov, acc) ==
    IF items = <<>> THEN acc
    ELSE PySetFrom(Tail(items), ov, PySetAdd(acc, Head(items), ov))

\* a & b: the smaller operand is iterated and each of its items looked up
\* in the other one
PyIntersect(a, b, ov) ==
    LET iterated == IF Len(b) > Len(a) THEN a ELSE b
        lookedup == IF Len(b) > Len(a) THEN b ELSE a
    IN  SelectSeq(iterated, LAMBDA x : PyContains(lookedup, x, ov))

(***************************************************************************)
(* Scores                                                                  *)
(***************************************************************************)
Scores0 == [reference |-> 0, predicted |-> 0, correct |-> 0]

\* add() counting every predicted item as correct
ScoresAddAllCorrect(s, reference, predicted, ov) ==
    [reference |-> s.reference + Len(reference),
     predicted |-> s.predicted + Len(predicted),
     correct   |-> s.correct + Len(predicted)]

\* add() with the reference length added to the predicted counter
ScoresAddSwapped(s, reference, predicted, ov) ==
    [reference |-> s.reference + Len(reference),
     predicted |-> s.predicted + Len(reference),
     correct   |-> s.correct + Len(PyIntersect(reference, predicted, ov))]

\* Scores.add (the returned missed/added sets only feed the debug log)
ScoresAdd(s, reference, predicted, ov) ==
    [reference |-> s.reference + Len(reference),
     predicted |-> s.predicted + Len(predicted),
     correct   |-> s.correct + Len(PyIntersect(reference, predicted, ov))]

\* update() leaving the correct counter out
ScoresUpdateDropsCorrect(s, o) ==
    [reference |-> s.reference + o.reference,
     predicted |-> s.predicted + o.predicted,
     correct   |-> s.correct]

\* Scores.update
ScoresUpdate(s, o) ==
    [reference |-> s.reference + o.reference,
     predicted |-> s.predicted + o.predicted,
     correct   |-> s.correct + o.correct]

\* Scores.precision
Precision(s) == IF s.predicted = 0 THEN <<1, 1>> ELSE <<s.correct, s.predicted>>

\* Scores.recall
Recall(s) == IF s.reference = 0 THEN <<1, 1>> ELSE <<s.correct, s.reference>>

\* a fraction equals an integer
FracIs(f, n) == f[1] = n * f[2]


(***************************************************************************)
(* _OverlappingWrapper.__init__                                            *)
(*                                                                         *)
(* An object graph h maps each annotation's identity to its properties,    *)
(* the sequence of <<name, identity of the value>> that                    *)
(* annotation.properties.items() yields.  A value whose identity is not    *)
(* an annotation's is a string or a number.                                *)
(***************************************************************************)
AnnotationIds == {"a1", "a2"}
ScalarIds == {"s1", "s2"}
PropNames == {"p", "q", "r"}

\* what a property of a wrapper maps to: a nested wrapper or the raw value
Wrapped(value, properties) == [kind |-> "wrapper", id |-> value, properties |-> properties]
Raw(value) == [kind |-> "raw", id |-> value, properties |-> <<>>]

\* the loop of lines 65-71 from the i-th item on; seen is shared by the
\* whole recursion, so the loop returns it with the properties built
RECURSIVE WrapLoop(_, _, _, _, _)
WrapLoop(h, annotation, i, seen, properties) ==
    IF i > Len(h[annotation])
    THEN [properties |-> properties, seen |-> seen]
    ELSE LET name == h[annotation][i][1]
             value == h[annotation][i][2]
         IN  IF value \notin seen
             THEN IF value \in AnnotationIds
                  THEN LET inner == WrapLoop(h, value, 1, seen \cup {value}, <<>>)
                       IN  WrapLoop(h, annotation, i + 1, inner.seen,
                                    properties @@ (name :> Wrapped(value, inner.properties)))
                  ELSE WrapLoop(h, annotation, i + 1, seen \cup {value},
                                properties @@ (name :> Raw(value)))
             ELSE WrapLoop(h, annotation, i + 1, seen, properties)

\* _OverlappingWrapper(annotation), seen=None
OverlappingWrapper(h, annotation) ==
    Wrapped(annotation, WrapLoop(h, annotation, 1, {}, <<>>).properties)

(***************************************************************************)
(* _group_by                                                               *)
(***************************************************************************)
\* the key functions _group_by is called with: lambda a: a.type on
\* annotations, lambda t: t[1] on the (spans, name, value) tuples of _props,
\* and, to try _group_by on its own, the start of an item's first span
KeyFunction(kf, item) ==
    IF kf = "type" THEN item.rest[1]
    ELSE IF kf = "name" THEN item.rest[1]
    ELSE item.spans[1][1]

\* the bucket of key k on one side: the items of that key, added one by one
Bucket(iterable, kf, k, ov) ==
    PySetFrom(SelectSeq(iterable, LAMBDA item : KeyFunction(kf, item) = k), ov, <<>>)

\* _group_by: a bucket pair exists for every key either side produced
GroupBy(reference, predicted, kf, ov) ==
    [k \in {KeyFunction(kf, item) : item \in Range(reference) \cup Range(predicted)} |->
        <<Bucket(reference, kf, k, ov), Bucket(predicted, kf, k, ov)>>]

(***************************************************************************)
(* score_data                                                              *)
(*                                                                         *)
(* A document is [present, annotations]; present is FALSE for None.  A     *)
(* filter is [given, keys]; given is FALSE for None.                       *)
(***************************************************************************)
NoData == [present |-> FALSE, annotations |-> <<>>]
Data(annotations) == [present |-> TRUE, annotations |-> annotations]
NoFilter == [given |-> FALSE, keys |-> {}]
Filter(keys) == [given |-> TRUE, keys |-> keys]

Str(v) == [kind |-> "str", val |-> v]
Num(v) == [kind |-> "num", val |-> v]
NoValue == [kind |-> "none", val |-> NoneVal]

\* a property value as a component of a (type, property, value) tuple: a
\* number is no string
KeyVal(value) == IF value.kind = "str" THEN value.val ELSE "#" \o value.val

AnnType(ann) == ann.rest[1]
AnnProperties(ann) == ann.rest[2]

\* the order in which a property mapping yields its names
PropNameOrder == <<"name", "age">>

\* _accept with an include entry overriding the exclude set
AcceptIncludeWins(inc, exc, type_name, prop_name, prop_value) ==
    IF /\ inc.given
       /\ (\/ <<type_name>> \in inc.keys
           \/ <<type_name, prop_name>> \in inc.keys
           \/ <<type_name, prop_name, prop_value>> \in inc.keys)
    THEN TRUE
    ELSE IF inc.given
    THEN FALSE
    ELSE ~(/\ exc.given
           /\ (\/ <<type_name>> \in exc.keys
               \/ <<type_name, prop_name>> \in exc.keys
               \/ <<type_name, prop_name, prop_value>> \in exc.keys))

\* score_data._accept; prop_name and prop_value default to None
Accept(inc, exc, type_name, prop_name, prop_value) ==
    IF /\ inc.given
       /\ <<type_name>> \notin inc.keys
       /\ <<type_name, prop_name>> \notin inc.keys
       /\ <<type_name, prop_name, prop_value>> \notin inc.keys
    THEN FALSE
    ELSE IF exc.given /\ <<type_name>> \in exc.keys
    THEN FALSE
    ELSE IF exc.given /\ <<type_name, prop_name>> \in exc.keys
    THEN FALSE
    ELSE IF exc.given /\ <<type_name, prop_name, prop_value>> \in exc.keys
    THEN FALSE
    ELSE TRUE

Fact(spans, key, value) == [spans |-> spans, rest |-> <<key, value>>]

\* the facts the inner loop of _props adds for the i-th property name on
RECURSIVE PropertyFacts(_, _, _, _)
PropertyFacts(ann, inc, exc, i) ==
    IF i > Len(PropNameOrder) THEN <<>>
    ELSE LET prop_name == PropNameOrder[i]
         IN  IF prop_name \notin DOMAIN AnnProperties(ann)
             THEN PropertyFacts(ann, inc, exc, i + 1)
             ELSE LET prop_value == AnnProperties(ann)[prop_name]
                      property == IF Accept(inc, exc, AnnType(ann), prop_name, NoneVal)
                                  THEN <<Fact(ann.spans, <<AnnType(ann), prop_name>>, prop_value)>>
                                  ELSE <<>>
                      valued == IF /\ Accept(inc, exc, AnnType(ann), prop_name, KeyVal(prop_value))
                                   /\ prop_value.kind = "str"
                                THEN <<Fact(ann.spans,
                                            <<AnnType(ann), prop_name, prop_value.val>>,
                                            prop_value)>>
                                ELSE <<>>
                  IN  property \o valued \o PropertyFacts(ann, inc, exc, i + 1)

\* what _props adds for one annotation, in order
FactsOf(ann, inc, exc) ==
    (IF Accept(inc, exc, AnnType(ann), "<span>", NoneVal)
     THEN <<Fact(ann.spans, <<AnnType(ann), "<span>">>, NoValue)>>
     ELSE <<>>)
    \o PropertyFacts(ann, inc, exc, 1)

\* score_data._props: the set of the facts of the annotations
RECURSIVE Props(_, _, _, _, _)
Props(annotations, inc, exc, ov, props) ==
    IF annotations = <<>> THEN props
    ELSE Props(Tail(annotations), inc, exc, ov,
               PySetFrom(FactsOf(Head(annotations), inc, exc), ov, props))

\* score_data with a reference document (None raises at line 154)
ScoreData(ref_data, pred_data, inc, exc, ov) ==
    LET reference_annotations == ref_data.annotations
        predicted_annotations == IF ~pred_data.present THEN <<>> ELSE pred_data.annotations
        by_type == GroupBy(reference_annotations, predicted_annotations, "type", ov)
        prop_groups(ann_type) ==
            GroupBy(Props(by_type[ann_type][1], inc, exc, ov, <<>>),
                    Props(by_type[ann_type][2], inc, exc, ov, <<>>),
                    "name", ov)
        type_keys == {<<t>> : t \in {u \in DOMAIN by_type : Accept(inc, exc, u, NoneVal, NoneVal)}}
        prop_keys == UNION {DOMAIN prop_groups(t) : t \in DOMAIN by_type}
    IN  [name \in type_keys \cup prop_keys |->
            IF Len(name) = 1
            THEN ScoresAdd(Scores0, by_type[name[1]][1], by_type[name[1]][2], ov)
            ELSE ScoresAdd(Scores0, prop_groups(name[1])[name][1],
                           prop_groups(name[1])[name][2], ov)]

(***************************************************************************)
(* _load_and_remove_errors                                                 *)
(*                                                                         *)
(* A file is [status, annotations]: status "missing" (os.path.exists is    *)
(* false), "invalid" (from_file raises ParseError) or "ok".                *)
(***************************************************************************)
File(status, annotations) == [status |-> status, annotations |-> annotations]

\* data.annotations.remove(annotation): the first occurrence is taken out;
\* removing an annotation the collection does not hold raises
RECURSIVE RemoveFirst(_, _)
RemoveFirst(annotations, annotation) ==
    IF annotations = <<>> THEN <<>>
    ELSE IF Head(annotations) = annotation THEN Tail(annotations)
    ELSE <<Head(annotations)>> \o RemoveFirst(Tail(annotations), annotation)

\* the for loop of lines 190-192 over the error list errs
RECURSIVE RemoveErrors(_, _)
RemoveErrors(annotations, errs) ==
    IF errs = <<>> THEN [raised |-> FALSE, annotations |-> annotations]
    ELSE IF Head(errs) \notin Range(annotations)
    THEN [raised |-> TRUE, annotations |-> annotations]
    ELSE RemoveErrors(RemoveFirst(annotations, Head(errs)), Tail(errs))

\* the schema of the corpus drivers: an annotation of a type the schema does
\* not define is an error, reported once
SchemaTypes == {"Person", "Place"}
SchemaErrors(annotations) == SelectSeq(annotations, LAMBDA a : AnnType(a) \notin SchemaTypes)

\* the while loop of lines 188-193 under that schema
RECURSIVE RemoveUntilValid(_)
RemoveUntilValid(annotations) ==
    IF SchemaErrors(annotations) = <<>> THEN annotations
    ELSE RemoveUntilValid(RemoveErrors(annotations, SchemaErrors(annotations)).annotations)

\* _load_and_remove_errors(schema, xml_path) under that schema
LoadAndRemoveErrors(file) ==
    IF file.status = "missing" THEN NoData
    ELSE IF file.status = "invalid" THEN NoData
    ELSE Data(RemoveUntilValid(file.annotations))

(***************************************************************************)
(* score_dirs and score_annotators                                         *)
(***************************************************************************)
ScoresAt(named_scores, name) ==
    IF name \in DOMAIN named_scores THEN named_scores[name] ELSE Scores0

\* for name, scores in named_scores.items(): result[name].update(scores)
UpdateAll(res, named_scores) ==
    [name \in DOMAIN res \cup DOMAIN named_scores |->
        IF name \in DOMAIN named_scores
        THEN ScoresUpdate(ScoresAt(res, name), named_scores[name])
        ELSE res[name]]

\* the body of the loop of score_dirs for one unit [reference_xml_names,
\* predicted_xml_paths], each a list of files: the result so far updated, or
\* raised
ScoreDirsUnit(res, unit) ==
    LET reference_file == unit.reference_xml_names[1]
        no_predicted == Len(unit.predicted_xml_paths) = 0
        reference == LoadAndRemoveErrors(reference_file)
        predicted == LoadAndRemoveErrors(unit.predicted_xml_paths[1])
    IN  IF no_predicted THEN [raised |-> TRUE, result |-> res]
        ELSE IF ~reference.present THEN [raised |-> TRUE, result |-> res]
        ELSE [raised |-> FALSE,
              result |-> UpdateAll(res, ScoreData(reference, predicted, NoFilter, NoFilter, FALSE))]

\* the annotator names in sorted() order
AnnotatorNames == <<"alice", "annotator", "bob", "gold">>
Rank(name) == CHOOSE i \in 1..Len(AnnotatorNames) : AnnotatorNames[i] = name

\* score_annotators.make_prefix
MakePrefix(annotator1, annotator2) ==
    IF Rank(annotator1) <= Rank(annotator2)
    THEN annotator1 \o "-vs-" \o annotator2
    ELSE annotator2 \o "-vs-" \o annotator1

Generalize(annotator) == IF annotator = "gold" THEN "gold" ELSE "annotator"

\* lines 261-270: the (annotator_name, data) list of the unit's files; an
\* xml name is [annotator, inprogress, size, file]
RECURSIVE AnnotatorData(_)
AnnotatorData(xml_names) ==
    IF xml_names = <<>> THEN <<>>
    ELSE LET xml_name == Head(xml_names)
         IN  IF xml_name.inprogress THEN AnnotatorData(Tail(xml_names))
             ELSE IF xml_name.size = 0 THEN AnnotatorData(Tail(xml_names))
             ELSE <<[annotator |-> xml_name.annotator,
                     data |-> LoadAndRemoveErrors(xml_name.file)]>>
                  \o AnnotatorData(Tail(xml_names))

\* lines 281-285: both prefixed buckets of every name are updated, one after
\* the other
UpdatePrefixed(res, named_scores, prefix, general_prefix) ==
    UpdateAll(UpdateAll(res, [name \in {<<prefix>> \o n : n \in DOMAIN named_scores} |->
                                 named_scores[Tail(name)]]),
              [name \in {<<general_prefix>> \o n : n \in DOMAIN named_scores} |->
                  named_scores[Tail(name)]])

\* lines 272-285 from the pair (i, j) on: st is [raised, result, log], log
\* the comparisons run
RECURSIVE ScorePairs(_, _, _, _)
ScorePairs(annotator_data, i, j, st) ==
    IF i > Len(annotator_data) THEN st
    ELSE IF j > Len(annotator_data) THEN ScorePairs(annotator_data, i + 1, i + 2, st)
    ELSE LET annotator1 == annotator_data[i].annotator
             annotator2 == annotator_data[j].annotator
             prefix == MakePrefix(annotator1, annotator2)
             general_prefix == MakePrefix(Generalize(annotator1), Generalize(annotator2))
         IN  IF ~annotator_data[i].data.present
             THEN [raised |-> TRUE, result |-> st.result, log |-> st.log]
             ELSE LET named_scores == ScoreData(annotator_data[i].data, annotator_data[j].data,
                                                NoFilter, NoFilter, FALSE)
                  IN  ScorePairs(annotator_data, i, j + 1,
                          [raised |-> FALSE,
                           result |-> UpdatePrefixed(st.result, named_scores, prefix, general_prefix),
                           log |-> Append(st.log, [prefix |-> prefix,
                                                   general_prefix |-> general_prefix,
                                                   named_scores |-> named_scores])])

\* the body of the loop of score_annotators for one unit
ScoreAnnotatorsUnit(res, log, xml_names) ==
    IF Len(xml_names) < 2 THEN [raised |-> FALSE, result |-> res, log |-> log]
    ELSE ScorePairs(AnnotatorData(xml_names), 1, 2, [raised |-> FALSE, result |-> res, log |-> log])

(***************************************************************************)
(* Variable groups                                                         *)
(***************************************************************************)
varsScores == <<scores, other, scoresLog, otherLog>>
varsSpans == <<spansA, spansB, eqAB, eqBA, spans_pc>>
varsWrap == <<heap, wrapper, wrap_pc>>
varsGroup == <<reference_iterable, predicted_iterable, key_function, items_ov, groups, group_pc>>
varsData == <<reference_data, predicted_data, include, exclude, annotation_wrapper, result, data_pc>>
varsLoad == <<xml_file, data, errors, pass_removed, load_pc>>
varsDirs == <<dirs_result, dirs_units, dirs_claimed, dirs_pc>>
varsAnnotators == <<annotators_result, annotators_units, general_sums, annotators_pc>>
vars == <<varsScores, varsSpans, varsWrap, varsGroup, varsData, varsLoad, varsDirs, varsAnnotators>>

IdleScores ==
    /\ scores = Scores0
    /\ other = Scores0
    /\ scoresLog = EmptyBag
    /\ otherLog = EmptyBag

IdleSpans ==
    /\ spansA = <<>>
    /\ spansB = <<>>
    /\ eqAB = FALSE
    /\ eqBA = FALSE
    /\ spans_pc = "idle"

IdleWrap ==
    /\ heap = <<>>
    /\ wrapper = NoneVal
    /\ wrap_pc = "idle"

IdleGroup ==
    /\ reference_iterable = <<>>
    /\ predicted_iterable = <<>>
    /\ key_function = NoneVal
    /\ items_ov = FALSE
    /\ groups = <<>>
    /\ group_pc = "idle"

IdleData ==
    /\ reference_data = NoData
    /\ predicted_data = NoData
    /\ include = NoFilter
    /\ exclude = NoFilter
    /\ annotation_wrapper = FALSE
    /\ result = <<>>
    /\ data_pc = "idle"

IdleLoad ==
    /\ xml_file = File("missing", <<>>)
    /\ data = NoData
    /\ errors = <<>>
    /\ pass_removed = 0
    /\ load_pc = "idle"

IdleDirs ==
    /\ dirs_result = <<>>
    /\ dirs_units = 0
    /\ dirs_claimed = <<>>
    /\ dirs_pc = "idle"

IdleAnnotators ==
    /\ annotators_result = <<>>
    /\ annotators_units = 0
    /\ general_sums = <<>>
    /\ annotators_pc = "idle"

\* every group but g is idle
IdleBut(g) ==
    /\ IF g = "scores" THEN TRUE ELSE IdleScores
    /\ IF g = "spans" THEN TRUE ELSE IdleSpans
    /\ IF g = "wrap" THEN TRUE ELSE IdleWrap
    /\ IF g = "group" THEN TRUE ELSE IdleGroup
    /\ IF g = "data" THEN TRUE ELSE IdleData
    /\ IF g = "load" THEN TRUE ELSE IdleLoad
    /\ IF g = "dirs" THEN TRUE ELSE IdleDirs
    /\ IF g = "annotators" THEN TRUE ELSE IdleAnnotators

(***************************************************************************)
(* Specification SpecScores: a fresh Scores and a second one, fed by add() *)
(* calls on sets under Exact equivalence and folded by update().           *)
(***************************************************************************)
Items == 1..3

\* the sets over Items, each as a PySet in increasing order
ItemSets ==
    {s \in UNION {[1..n -> Items] : n \in 0..Cardinality(Items)} :
        \A i, j \in 1..Len(s) : i < j => s[i] < s[j]}

LogSize == BagCardinality(scoresLog) + BagCardinality(otherLog)

InitScores ==
    /\ scores = Scores0
    /\ other = Scores0
    /\ scoresLog = EmptyBag
    /\ otherLog = EmptyBag
    /\ IdleBut("scores")

\* scores.add(reference, predicted)
Add(reference, predicted) ==
    /\ LogSize < MaxAddCalls
    /\ scores' = ScoresAdd(scores, reference, predicted, FALSE)
    /\ scoresLog' = scoresLog (+) SetToBag({<<reference, predicted>>})
    /\ UNCHANGED <<other, otherLog, varsSpans, varsWrap, varsGroup, varsData, varsLoad, varsDirs, varsAnnotators>>

\* other.add(reference, predicted)
AddOther(reference, predicted) ==
    /\ LogSize < MaxAddCalls
    /\ other' = ScoresAdd(other, reference, predicted, FALSE)
    /\ otherLog' = otherLog (+) SetToBag({<<reference, predicted>>})
    /\ UNCHANGED <<scores, scoresLog, varsSpans, varsWrap, varsGroup, varsData, varsLoad, varsDirs, varsAnnotators>>

\* scores.update(other)
Update ==
    /\ BagCardinality(scoresLog) + BagCardinality(otherLog) <= MaxAddCalls
    /\ scores' = ScoresUpdate(scores, other)
    /\ scoresLog' = scoresLog (+) otherLog
    /\ UNCHANGED <<other, otherLog, varsSpans, varsWrap, varsGroup, varsData, varsLoad, varsDirs, varsAnnotators>>

\* other.update(scores)
UpdateOther ==
    /\ BagCardinality(scoresLog) + BagCardinality(otherLog) <= MaxAddCalls
    /\ other' = ScoresUpdate(other, scores)
    /\ otherLog' = otherLog (+) scoresLog
    /\ UNCHANGED <<scores, scoresLog, varsSpans, varsWrap, varsGroup, varsData, varsLoad, varsDirs, varsAnnotators>>

NextScores ==
    \/ \E reference \in ItemSets, predicted \in ItemSets : Add(reference, predicted)
    \/ \E reference \in ItemSets, predicted \in ItemSets : AddOther(reference, predicted)
    \/ Update
    \/ UpdateOther

SpecScores == InitScores /\ [][NextScores]_vars

\* what one logged add() call contributes to a counter
Measure(which, call) ==
    CASE which = "reference" -> Cardinality(Range(call[1]))
      [] which = "predicted" -> Cardinality(Range(call[2]))
      [] which = "correct"   -> Cardinality(Range(call[1]) \cap Range(call[2]))

\* the sum of a counter's contributions over a bag of add() calls
RECURSIVE LogSum(_, _, _)
LogSum(log, calls, which) ==
    IF calls = {} THEN 0
    ELSE LET c == CHOOSE x \in calls : TRUE
         IN  log[c] * Measure(which, c) + LogSum(log, calls \ {c}, which)

CountersMatchLog(s, log) ==
    /\ 0 <= s.correct
    /\ s.correct <= s.reference
    /\ s.correct <= s.predicted
    /\ s.reference = LogSum(log, BagToSet(log), "reference")
    /\ s.predicted = LogSum(log, BagToSet(log), "predicted")
    /\ s.correct = LogSum(log, BagToSet(log), "correct")

\* C10: after any sequence of add() calls on sets under Exact equivalence and
\* update() calls, 0 <= correct <= reference, correct <= predicted, and each
\* counter is the sum of its contributions over the bag of add() calls folded
\* in, whatever the order of the calls.
C10_CountersAreSums ==
    /\ CountersMatchLog(scores, scoresLog)
    /\ CountersMatchLog(other, otherLog)

\* C10 witness: an update() has folded add() calls with a partial match into
\* a Scores that had add() calls of its own
C10_Witness ==
    /\ BagCardinality(scoresLog) = MaxAddCalls
    /\ otherLog # EmptyBag
    /\ scores.correct > 0
    /\ scores.correct < scores.reference
    /\ scores.reference > other.reference

(***************************************************************************)
(* Specification SpecSpans: _OverlappingSpans.__eq__ on two span sets      *)
(***************************************************************************)
Offsets == {0, 3, 5, 8, 10}

Span == {sp \in Offsets \X Offsets : sp[1] < sp[2]}

SpanSets == UNION {[1..n -> Span] : n \in 1..MaxSubSpans}

InitSpans ==
    /\ spansA \in SpanSets
    /\ spansB \in SpanSets
    /\ eqAB = FALSE
    /\ eqBA = FALSE
    /\ spans_pc = "start"
    /\ IdleBut("spans")

\* _OverlappingSpans(a) == _OverlappingSpans(b) and the converse
Compare ==
    /\ spans_pc = "start"
    /\ eqAB' = OverlappingSpansEq(spansA, spansB, 1)
    /\ eqBA' = OverlappingSpansEq(spansB, spansA, 1)
    /\ spans_pc' = "done"
    /\ UNCHANGED <<spansA, spansB, varsScores, varsWrap, varsGroup, varsData, varsLoad, varsDirs, varsAnnotators>>

NextSpans == Compare

SpecSpans == InitSpans /\ [][NextSpans]_vars

\* C4: two span sets compare equal exactly when a sub-span a of one and a
\* sub-span b of the other have a.start < b.end and b.start < a.end; the
\* relation is symmetric; (0,5) equals (3,8); (0,5) does not equal (5,10).
C4_OverlapIffStrict ==
    spans_pc = "done" =>
        /\ eqAB = (\E a \in Range(spansA), b \in Range(spansB) :
                       a[1] < b[2] /\ b[1] < a[2])
        /\ eqAB = eqBA
        /\ (spansA = << <<0, 5>> >> /\ spansB = << <<3, 8>> >> => eqAB)
        /\ (spansA = << <<0, 5>> >> /\ spansB = << <<5, 10>> >> => ~eqAB)

\* C4 witness: the touching spans have been compared, in a pair of
\* discontiguous span sets that overlap elsewhere
C4_Witness ==
    /\ spans_pc = "done"
    /\ spansA = << <<0, 5>>, <<8, 10>> >>
    /\ spansB = << <<5, 10>> >>
    /\ eqAB

(***************************************************************************)
(* Specification SpecWrap: _OverlappingWrapper on the annotation a1 of an  *)
(* object graph that may share values and may be cyclic.                   *)
(***************************************************************************)
\* the properties an annotation can have: at most MaxProps items, no name twice
PropertyLists ==
    {ps \in UNION {[1..n -> PropNames \X (AnnotationIds \cup ScalarIds)] : n \in 0..MaxProps} :
        \A i, j \in 1..Len(ps) : i # j => ps[i][1] # ps[j][1]}

InitWrap ==
    /\ heap \in [AnnotationIds -> PropertyLists]
    /\ wrapper = NoneVal
    /\ wrap_pc = "start"
    /\ IdleBut("wrap")

Wrap ==
    /\ wrap_pc = "start"
    /\ wrapper' = OverlappingWrapper(heap, "a1")
    /\ wrap_pc' = "done"
    /\ UNCHANGED <<heap, varsScores, varsSpans, varsGroup, varsData, varsLoad, varsDirs, varsAnnotators>>

NextWrap == Wrap

SpecWrap == InitWrap /\ [][NextWrap]_vars

\* the traversal as the claim words it: a value already visited maps to the
\* raw value
RECURSIVE ClaimedWrapLoop(_, _, _, _, _)
ClaimedWrapLoop(h, annotation, i, seen, properties) ==
    IF i > Len(h[annotation])
    THEN [properties |-> properties, seen |-> seen]
    ELSE LET name == h[annotation][i][1]
             value == h[annotation][i][2]
         IN  IF value \notin seen
             THEN IF value \in AnnotationIds
                  THEN LET inner == ClaimedWrapLoop(h, value, 1, seen \cup {value}, <<>>)
                       IN  ClaimedWrapLoop(h, annotation, i + 1, inner.seen,
                                           properties @@ (name :> Wrapped(value, inner.properties)))
                  ELSE ClaimedWrapLoop(h, annotation, i + 1, seen \cup {value},
                                       properties @@ (name :> Raw(value)))
             ELSE ClaimedWrapLoop(h, annotation, i + 1, seen,
                                  properties @@ (name :> Raw(value)))

\* C9: the wrapper's properties mapping has exactly the property names of
\* the wrapped annotation; an annotation met for the first time maps to a
\* recursively built wrapper, a non-annotation value to itself, and a value
\* already visited to the raw value.
C9_WrapperKeepsEveryProperty ==
    wrap_pc = "done" =>
        /\ DOMAIN wrapper.properties = {heap["a1"][i][1] : i \in 1..Len(heap["a1"])}
        /\ wrapper.properties = ClaimedWrapLoop(heap, "a1", 1, {}, <<>>).properties

(***************************************************************************)
(* Specification SpecGroup: _group_by on two lists of annotations, under   *)
(* the Exact or the Overlapping equivalence.                               *)
(***************************************************************************)
TypeNames == {"Person", "Place"}

GroupItems ==
    {[spans |-> <<sp>>, rest |-> <<t>>] : sp \in {<<0, 5>>, <<3, 8>>, <<5, 10>>}, t \in TypeNames}

GroupLists == UNION {[1..n -> GroupItems] : n \in 0..MaxGroupItems}

InitGroup ==
    /\ reference_iterable \in GroupLists
    /\ predicted_iterable \in GroupLists
    /\ key_function \in {"type", "start"}
    /\ items_ov \in BOOLEAN
    /\ groups = <<>>
    /\ group_pc = "start"
    /\ IdleBut("group")

CallGroupBy ==
    /\ group_pc = "start"
    /\ groups' = GroupBy(reference_iterable, predicted_iterable, key_function, items_ov)
    /\ group_pc' = "done"
    /\ UNCHANGED <<reference_iterable, predicted_iterable, key_function, items_ov,
                   varsScores, varsSpans, varsWrap, varsData, varsLoad, varsDirs, varsAnnotators>>

NextGroup == CallGroupBy

SpecGroup == InitGroup /\ [][NextGroup]_vars

\* one side of the grouping is a partition of that side's collection
SideIsPartitioned(iterable, side) ==
    /\ \A item \in Range(iterable) :
           Cardinality({k \in DOMAIN groups : item \in Range(groups[k][side])}) = 1
    /\ UNION {Range(groups[k][side]) : k \in DOMAIN groups} = Range(iterable)
    /\ \A k \in DOMAIN groups :
           (\A item \in Range(iterable) : KeyFunction(key_function, item) # k)
               => groups[k][side] = <<>>

\* C5: every reference (predicted) item is in exactly one bucket's reference
\* (predicted) set, the union of the buckets' reference (predicted) sets is
\* the reference (predicted) collection, and a key present on one side only
\* has a bucket whose other side is empty, under either equivalence.
C5_GroupByPartitions ==
    group_pc = "done" =>
        /\ SideIsPartitioned(reference_iterable, 1)
        /\ SideIsPartitioned(predicted_iterable, 2)

(***************************************************************************)
(* Specifications SpecData and SpecFilter: score_data on one document      *)
(* pair.  SpecData draws the documents and the equivalence with no filter; *)
(* SpecFilter draws the filters over one-annotation documents.             *)
(***************************************************************************)
PersonProperties ==
    {<<>>,
     [name |-> Str("Alice")],
     [name |-> Str("Bob")],
     [age |-> Num("7")],
     [name |-> Str("Alice"), age |-> Num("7")]}

Annotation ==
    {[spans |-> <<sp>>, rest |-> <<"Person", ps>>] :
        sp \in {<<0, 5>>, <<3, 8>>}, ps \in PersonProperties}
    \cup {[spans |-> <<sp>>, rest |-> <<"Place", <<>>>>] : sp \in {<<0, 5>>, <<3, 8>>}}

\* the annotations of the documents SpecData draws
DataAnnotation ==
    {a \in Annotation :
        \/ AnnType(a) = "Place"
        \/ Cardinality(DOMAIN AnnProperties(a)) = 1}

Documents(n) == {Data(a) : a \in UNION {[1..k -> DataAnnotation] : k \in 0..n}}

InitData ==
    /\ reference_data \in Documents(MaxRefAnnotations)
    /\ predicted_data \in Documents(MaxPredAnnotations) \cup {NoData}
    /\ include = NoFilter
    /\ exclude = NoFilter
    /\ annotation_wrapper \in BOOLEAN
    /\ result = <<>>
    /\ data_pc = "start"
    /\ IdleBut("data")

\* score_data(reference_data, predicted_data, include, exclude, annotation_wrapper)
CallScoreData ==
    /\ data_pc = "start"
    /\ result' = ScoreData(reference_data, predicted_data, include, exclude,
                           annotation_wrapper)
    /\ data_pc' = "done"
    /\ UNCHANGED <<reference_data, predicted_data, include, exclude, annotation_wrapper,
                   varsScores, varsSpans, varsWrap, varsGroup, varsLoad, varsDirs, varsAnnotators>>

NextData == CallScoreData

SpecData == InitData /\ [][NextData]_vars

Triple(s) == <<s.reference, s.predicted, s.correct>>

\* the scenario of C1: one annotation a side, same type and spans, the one
\* string property with two different values
OneEachDifferentValue ==
    /\ ~annotation_wrapper
    /\ predicted_data.present
    /\ Len(reference_data.annotations) = 1
    /\ Len(predicted_data.annotations) = 1
    /\ LET r == reference_data.annotations[1]
           p == predicted_data.annotations[1]
       IN  /\ AnnType(r) = AnnType(p)
           /\ r.spans = p.spans
           /\ DOMAIN AnnProperties(r) = {"name"}
           /\ DOMAIN AnnProperties(p) = {"name"}
           /\ AnnProperties(r)["name"] # AnnProperties(p)["name"]

\* the four scores of the scenario, given the score of the bare type
ScenarioScores(type_score) ==
    LET r == reference_data.annotations[1]
        p == predicted_data.annotations[1]
        T == AnnType(r)
        v1 == AnnProperties(r)["name"].val
        v2 == AnnProperties(p)["name"].val
    IN  /\ {<<T>>, <<T, "name">>, <<T, "name", v1>>, <<T, "name", v2>>} \subseteq DOMAIN result
        /\ Triple(result[<<T>>]) = type_score
        /\ Triple(result[<<T, "name">>]) = <<1, 1, 0>>
        /\ Triple(result[<<T, "name", v1>>]) = <<1, 0, 0>>
        /\ Triple(result[<<T, "name", v2>>]) = <<0, 1, 0>>

\* C1 as stated: in the scenario the scores are (1,1,1) for T, (1,1,0) for
\* (T,p), (1,0,0) for (T,p,v1) and (0,1,0) for (T,p,v2).
C1_ScenarioAsStated ==
    data_pc = "done" /\ OneEachDifferentValue => ScenarioScores(<<1, 1, 1>>)

\* C1 amended: in the scenario the scores are (1,1,0) for T, since the two
\* annotations differ in a property, (1,1,0) for (T,p), (1,0,0) for (T,p,v1)
\* and (0,1,0) for (T,p,v2).
C1_ScenarioAmended ==
    data_pc = "done" /\ OneEachDifferentValue => ScenarioScores(<<1, 1, 0>>)

\* C1 witness: the scenario of the spec has been scored
C1_Witness ==
    /\ data_pc = "done"
    /\ OneEachDifferentValue
    /\ reference_data.annotations[1] =
           [spans |-> << <<0, 5>> >>, rest |-> <<"Person", [name |-> Str("Alice")]>>]
    /\ AnnProperties(predicted_data.annotations[1])["name"] = Str("Bob")

\* C2: with no predicted document score_data returns a mapping in which
\* every key with reference > 0 has predicted = 0 and correct = 0, so that
\* recall() is 0.0 and precision() is 1.0.
C2_AbsentPredicted ==
    data_pc = "done" /\ ~predicted_data.present =>
        \A name \in DOMAIN result :
            result[name].reference > 0 =>
                /\ result[name].predicted = 0
                /\ result[name].correct = 0
                /\ FracIs(Recall(result[name]), 0)
                /\ FracIs(Precision(result[name]), 1)

\* C2 witness: a reference document of two types has been scored against no
\* predicted document
C2_Witness ==
    /\ data_pc = "done"
    /\ ~predicted_data.present
    /\ {<<"Person">>, <<"Place">>, <<"Person", "name", "Alice">>} \subseteq DOMAIN result
    /\ result[<<"Person">>].reference > 0

FilterAnnotation == {a \in Annotation : a.spans = << <<0, 5>> >>}

FilterKeys ==
    {<<t>> : t \in {"Person", "Place"}}
    \cup {<<t, p>> : t \in {"Person", "Place"}, p \in {"<span>", "name", "age"}}
    \cup {<<"Person", "name", v>> : v \in {"Alice", "Bob"}}

Filters == {NoFilter} \cup {Filter(ks) : ks \in {k \in SUBSET FilterKeys : Cardinality(k) <= MaxFilterKeys}}

InitFilter ==
    /\ reference_data \in {Data(<<a>>) : a \in FilterAnnotation}
    /\ predicted_data \in {Data(<<a>>) : a \in FilterAnnotation} \cup {NoData}
    /\ include \in Filters
    /\ exclude \in Filters
    /\ annotation_wrapper = FALSE
    /\ result = <<>>
    /\ data_pc = "start"
    /\ IdleBut("data")

SpecFilter == InitFilter /\ [][NextData]_vars

\* the key, its (type, property) prefix or its type is an entry of the filter
Matches(filter, name) ==
    /\ filter.given
    /\ \/ <<name[1]>> \in filter.keys
       \/ Len(name) >= 2 /\ <<name[1], name[2]>> \in filter.keys
       \/ Len(name) = 3 /\ name \in filter.keys

\* C3: exclude takes precedence over include: a key whose type, (type,
\* property) pair or (type, property, value) triple is in exclude is rejected
\* even when include holds one of the three, so nothing is counted under it.
C3_ExcludeWins ==
    data_pc = "done" =>
        \A name \in DOMAIN result : ~Matches(exclude, name)

\* C3 witness: the reference annotation yields a key that include and
\* exclude both match, and the returned mapping has other keys but not it
C3_Witness ==
    /\ data_pc = "done"
    /\ LET name == <<"Person", "name", AnnProperties(reference_data.annotations[1])["name"].val>>
       IN  /\ AnnType(reference_data.annotations[1]) = "Person"
           /\ "name" \in DOMAIN AnnProperties(reference_data.annotations[1])
           /\ Matches(include, name)
           /\ Matches(exclude, name)
           /\ name \notin DOMAIN result
    /\ DOMAIN result # {}

(***************************************************************************)
(* Specification SpecLoad: _load_and_remove_errors on one file, against a  *)
(* schema whose errors() reports annotations of the document it is given.  *)
(***************************************************************************)
\* what schema.errors(data) may return: (annotation, message) pairs over the
\* annotations of the document; the messages are left out
ErrorLists(annotations) ==
    UNION {[1..n -> Range(annotations)] : n \in 0..MaxErrors}

othersLoad == <<varsScores, varsSpans, varsWrap, varsGroup, varsData, varsDirs, varsAnnotators>>

InitLoad ==
    /\ xml_file \in {File("missing", <<>>), File("invalid", <<>>)}
                    \cup {File("ok", [i \in 1..n |-> i]) : n \in 0..MaxDocAnnotations}
    /\ data = NoData
    /\ errors = <<>>
    /\ pass_removed = 0
    /\ load_pc = "start"
    /\ IdleBut("load")

\* lines 179-181
NoSuchFile ==
    /\ UNCHANGED othersLoad
    /\ load_pc = "start"
    /\ xml_file.status = "missing"
    /\ data' = NoData
    /\ load_pc' = "returned"
    /\ UNCHANGED <<xml_file, errors, pass_removed>>

\* lines 184-186
ParseError ==
    /\ UNCHANGED othersLoad
    /\ load_pc = "start"
    /\ xml_file.status = "invalid"
    /\ data' = NoData
    /\ load_pc' = "returned"
    /\ UNCHANGED <<xml_file, errors, pass_removed>>

\* lines 183 and 188
FromFile ==
    /\ UNCHANGED othersLoad
    /\ load_pc = "start"
    /\ xml_file.status = "ok"
    /\ data' = Data(xml_file.annotations)
    /\ errors' \in ErrorLists(xml_file.annotations)
    /\ load_pc' = "while"
    /\ UNCHANGED <<xml_file, pass_removed>>

\* lines 189-193: one pass of the while loop
RemovePass ==
    /\ UNCHANGED othersLoad
    /\ load_pc = "while"
    /\ errors # <<>>
    /\ LET pass == RemoveErrors(data.annotations, errors)
       IN  /\ data' = Data(pass.annotations)
           /\ pass_removed' = Len(data.annotations) - Len(pass.annotations)
           /\ IF pass.raised
              THEN /\ load_pc' = "raised"
                   /\ UNCHANGED errors
              ELSE /\ load_pc' = "while"
                   /\ errors' \in ErrorLists(pass.annotations)
    /\ UNCHANGED xml_file

\* line 194
ReturnData ==
    /\ UNCHANGED othersLoad
    /\ load_pc = "while"
    /\ errors = <<>>
    /\ load_pc' = "returned"
    /\ UNCHANGED <<xml_file, data, errors, pass_removed>>

NextLoad ==
    \/ NoSuchFile
    \/ ParseError
    \/ FromFile
    \/ RemovePass
    \/ ReturnData

SpecLoad == InitLoad /\ [][NextLoad]_vars

\* C8: the pruning loop of a loaded document ends by returning, with no
\* error left, and every pass it made removed at least one annotation.
C8_PruningEndsValid ==
    /\ load_pc # "raised"
    /\ (load_pc = "returned" /\ data.present => errors = <<>>)
    /\ (load_pc = "while" /\ Len(data.annotations) < Len(xml_file.annotations)
            => pass_removed >= 1)

(***************************************************************************)
(* Specification SpecDirs: score_dirs over a corpus of at most MaxUnits    *)
(* units, each met by the walk with its reference and predicted files.     *)
(***************************************************************************)
Alice == [spans |-> << <<0, 5>> >>, rest |-> <<"Person", [name |-> Str("Alice")]>>]
Bob == [spans |-> << <<0, 5>> >>, rest |-> <<"Person", [name |-> Str("Bob")]>>]
Bogus == [spans |-> << <<3, 8>> >>, rest |-> <<"Bogus", <<>>>>]

Files ==
    {File("missing", <<>>), File("invalid", <<>>)}
    \cup {File("ok", d) : d \in {<<Alice>>, <<Bob>>, <<Alice, Bogus>>}}

Units ==
    [reference_xml_names : UNION {[1..n -> Files] : n \in 1..MaxXmlNames},
     predicted_xml_paths : UNION {[1..n -> Files] : n \in 0..MaxXmlNames}]

othersDirs == <<varsScores, varsSpans, varsWrap, varsGroup, varsData, varsLoad, varsAnnotators>>

\* a side that failed to load counts as a document with no annotations
LoadedOrEmpty(file) ==
    IF LoadAndRemoveErrors(file).present THEN LoadAndRemoveErrors(file) ELSE Data(<<>>)

\* the scores of a unit as the claim has them
ClaimedUnitScores(unit) ==
    ScoreData(LoadedOrEmpty(unit.reference_xml_names[1]),
              IF unit.predicted_xml_paths = <<>> THEN Data(<<>>)
              ELSE LoadedOrEmpty(unit.predicted_xml_paths[1]),
              NoFilter, NoFilter, FALSE)

InitDirs ==
    /\ dirs_result = <<>>
    /\ dirs_units = 0
    /\ dirs_claimed = <<>>
    /\ dirs_pc = "walk"
    /\ IdleBut("dirs")

\* lines 211-232 for the next unit of the walk
WalkUnit(unit) ==
    /\ UNCHANGED othersDirs
    /\ dirs_pc = "walk"
    /\ dirs_units < MaxUnits
    /\ LET step == ScoreDirsUnit(dirs_result, unit)
       IN  /\ dirs_result' = step.result
           /\ dirs_pc' = IF step.raised THEN "raised" ELSE "walk"
    /\ dirs_units' = dirs_units + 1
    /\ dirs_claimed' = UpdateAll(dirs_claimed, ClaimedUnitScores(unit))

\* line 234
ReturnDirs ==
    /\ UNCHANGED othersDirs
    /\ dirs_pc = "walk"
    /\ dirs_pc' = "returned"
    /\ UNCHANGED <<dirs_result, dirs_units, dirs_claimed>>

NextDirs ==
    \/ \E unit \in Units : WalkUnit(unit)
    \/ ReturnDirs

SpecDirs == InitDirs /\ [][NextDirs]_vars

\* C6: a unit whose reference or predicted file is missing or unparsable
\* does not abort score_dirs: the unit is scored with the failed side empty
\* and every other unit is scored and folded into the result.
C6_FailedUnitIsolated ==
    /\ dirs_pc # "raised"
    /\ dirs_result = dirs_claimed

(***************************************************************************)
(* Specification SpecAnnotators: score_annotators over at most             *)
(* MaxAnnotatorUnits units of at most MaxAnnotatorFiles matching files.    *)
(***************************************************************************)
XmlName(annotator, inprogress, size, file) ==
    [annotator |-> annotator, inprogress |-> inprogress, size |-> size, file |-> file]

XmlNames ==
    {XmlName("alice", FALSE, 1, File("ok", <<Alice>>)),
     XmlName("bob", FALSE, 1, File("ok", <<Bob>>)),
     XmlName("annotator", FALSE, 1, File("ok", <<Bob>>)),
     XmlName("gold", FALSE, 1, File("ok", <<Alice>>)),
     XmlName("gold", FALSE, 1, File("invalid", <<>>)),
     XmlName("alice", TRUE, 1, File("ok", <<Alice>>)),
     XmlName("bob", FALSE, 0, File("invalid", <<>>))}

XmlNameLists == UNION {[1..n -> XmlNames] : n \in 0..MaxAnnotatorFiles}

othersAnnotators == <<varsScores, varsSpans, varsWrap, varsGroup, varsData, varsLoad, varsDirs>>

\* the comparisons of a log, each added once under its role-generalized label
RECURSIVE AddGeneral(_, _, _)
AddGeneral(sums, log, i) ==
    IF i > Len(log) THEN sums
    ELSE AddGeneral(UpdateAll(sums,
                        [name \in {<<log[i].general_prefix>> \o n : n \in DOMAIN log[i].named_scores} |->
                            log[i].named_scores[Tail(name)]]),
                    log, i + 1)

InitAnnotators ==
    /\ annotators_result = <<>>
    /\ annotators_units = 0
    /\ general_sums = <<>>
    /\ annotators_pc = "walk"
    /\ IdleBut("annotators")

\* lines 256-285 for the next unit of the walk
WalkAnnotatorUnit(xml_names) ==
    /\ UNCHANGED othersAnnotators
    /\ annotators_pc = "walk"
    /\ annotators_units < MaxAnnotatorUnits
    /\ LET step == ScoreAnnotatorsUnit(annotators_result, <<>>, xml_names)
       IN  /\ annotators_result' = step.result
           /\ general_sums' = AddGeneral(general_sums, step.log, 1)
           /\ annotators_pc' = IF step.raised THEN "raised" ELSE "walk"
    /\ annotators_units' = annotators_units + 1

\* line 287
ReturnAnnotators ==
    /\ UNCHANGED othersAnnotators
    /\ annotators_pc = "walk"
    /\ annotators_pc' = "returned"
    /\ UNCHANGED <<annotators_result, annotators_units, general_sums>>

NextAnnotators ==
    \/ \E xml_names \in XmlNameLists : WalkAnnotatorUnit(xml_names)
    \/ ReturnAnnotators

SpecAnnotators == InitAnnotators /\ [][NextAnnotators]_vars

\* C7: every pair of loaded annotators of every unit is compared, and for
\* every key the totals under a role-generalized label are the sum of the
\* totals of the pairwise comparisons that generalize to that label.
C7_GeneralLabelIsSum ==
    /\ annotators_pc # "raised"
    /\ \A name \in DOMAIN general_sums :
           ScoresAt(annotators_result, name) = general_sums[name]

====
